---- MODULE Spec2Model ----
(***************************************************************************)
(* Credential classification (NewClient) and identity resolution           *)
(* (getMeIdentity) of the Mythic Go client, as written by the patch        *)
(* scripts fix_client.py and fix_getme.py.                                 *)
(*                                                                         *)
(* Strings the code inspects character by character (tokens, header        *)
(* values) are sequences of one-character strings; response bodies are     *)
(* sequences of JSON lexemes.                                              *)
(***************************************************************************)
EXTENDS Integers, Sequences, FiniteSets, TLC

(* ---------------------------------------------------------------- bounds *)
\* longest APIToken / AccessToken a caller supplies when only construction runs
NormApiLen == 4
NormAccessLen == 3
\* longest APIToken / AccessToken a caller supplies when resolutions run
ResolveApiLen == 3
ResolveAccessLen == 1
\* how many times a caller hands the same configuration to NewClient
MaxConstructions == 2

(* ------------------------------------------------------------ input sets *)
Alphabet == {"e", "y", "J"}

SeqsUpTo(n) == UNION {[1..k -> Alphabet] : k \in 0..n}

\* a bare host, the same host with a scheme prefix, and a host url.Parse rejects
ServerURLs == { <<"mythic.example.com">>,
                <<"https://", "mythic.example.com">>,
                <<"%zz">> }

Calls == {"c1", "c2"}

StatusOK == 200
Statuses == {StatusOK, 401, 403}

UserIdKey == "\"user_id\""

\* the user_id values a /me body may carry
UserIds == {0, 7, 42}

GarbageBody == <<"Unauthorized">>
EmptyObjectBody == <<"{", "}">>
UidBody(n) == <<"{", UserIdKey, ":", n, "}">>

Bodies == {GarbageBody, EmptyObjectBody} \cup {UidBody(n) : n \in UserIds}

(* ------------------------------------------------------- pure operations *)
JWTMarker == <<"e", "y", "J">>

\* strings.HasPrefix
HasPrefix(s, prefix) ==
    /\ Len(s) >= Len(prefix)
    /\ SubSeq(s, 1, Len(prefix)) = prefix

\* mutation: exchanges the two fields instead of clearing APIToken
NormalizeSwaps(cfg) ==
    IF cfg.APIToken # <<>> /\ HasPrefix(cfg.APIToken, JWTMarker)
    THEN [cfg EXCEPT !.AccessToken = cfg.APIToken, !.APIToken = cfg.AccessToken]
    ELSE cfg

\* mutation: the marker test is applied to the wrong length of prefix
NormalizeShortMarker(cfg) ==
    IF cfg.APIToken # <<>> /\ HasPrefix(cfg.APIToken, SubSeq(JWTMarker, 1, 2))
    THEN [cfg EXCEPT !.AccessToken = cfg.APIToken, !.APIToken = <<>>]
    ELSE cfg

\* mutation: the token is copied to AccessToken but APIToken is not cleared
NormalizeKeepsApiToken(cfg) ==
    IF cfg.APIToken # <<>> /\ HasPrefix(cfg.APIToken, JWTMarker)
    THEN [cfg EXCEPT !.AccessToken = cfg.APIToken]
    ELSE cfg

\* the JWT detection NewClient performs on the configuration
NormalizeConfig(cfg) ==
    IF cfg.APIToken # <<>> /\ HasPrefix(cfg.APIToken, JWTMarker)
    THEN [cfg EXCEPT !.AccessToken = cfg.APIToken, !.APIToken = <<>>]
    ELSE cfg

BearerPrefix == <<"B", "e", "a", "r", "e", "r", " ">>

\* "Bearer " + token
Bearer(token) == BearerPrefix \o token

\* a header set is a set of <<name, value>> pairs (a Go map[string]string)
\* Client.getAuthHeaders: bearer token first, then API token, else nothing
getAuthHeaders(cfg) ==
    IF cfg.AccessToken # <<>> THEN {<<"Authorization", Bearer(cfg.AccessToken)>>}
    ELSE IF cfg.APIToken # <<>> THEN {<<"apitoken", cfg.APIToken>>}
    ELSE {}

\* mutation: the fallback is built from the bearer field
BuildAttemptsFromAccess(cfg) ==
    IF cfg.APIToken # <<>>
    THEN <<getAuthHeaders(cfg), {<<"Authorization", Bearer(cfg.AccessToken)>>}>>
    ELSE <<getAuthHeaders(cfg)>>

\* mutation: the Bearer fallback is appended whatever APIToken holds
BuildAttemptsAlwaysFallback(cfg) ==
    <<getAuthHeaders(cfg), {<<"Authorization", Bearer(cfg.APIToken)>>}>>

\* mutation: the fallback is left out when the primary is already a Bearer header
BuildAttemptsNoDualFallback(cfg) ==
    IF cfg.APIToken # <<>> /\ cfg.AccessToken = <<>>
    THEN <<getAuthHeaders(cfg), {<<"Authorization", Bearer(cfg.APIToken)>>}>>
    ELSE <<getAuthHeaders(cfg)>>

\* mutation: the primary header set is tried once more after the fallback
BuildAttemptsRetriesPrimary(cfg) ==
    IF cfg.APIToken # <<>>
    THEN <<getAuthHeaders(cfg), {<<"Authorization", Bearer(cfg.APIToken)>>},
           getAuthHeaders(cfg)>>
    ELSE <<getAuthHeaders(cfg)>>

\* the list of header sets getMeIdentity tries, in order
BuildAttempts(cfg) ==
    IF cfg.APIToken # <<>>
    THEN <<getAuthHeaders(cfg), {<<"Authorization", Bearer(cfg.APIToken)>>}>>
    ELSE <<getAuthHeaders(cfg)>>

SchemePrefixes == {"http://", "https://"}

\* stripScheme: drops a leading scheme prefix from the server URL
stripScheme(url) ==
    IF url # <<>> /\ Head(url) \in SchemePrefixes THEN Tail(url) ELSE url

\* mutation: the scheme does not follow the SSL flag
MeURLAlwaysHttps(cfg) ==
    <<"https", "://">> \o stripScheme(cfg.ServerURL) \o <<"/me">>

\* fmt.Sprintf("%s://%s/me", scheme, stripScheme(c.config.ServerURL))
MeURL(cfg) ==
    <<(IF cfg.SSL THEN "https" ELSE "http"), "://">>
        \o stripScheme(cfg.ServerURL) \o <<"/me">>

\* http.NewRequestWithContext fails when the URL does not parse
UrlParses(url) == \A i \in 1..Len(url) : url[i] # "%zz"

\* json.Unmarshal into struct{ UserID int `json:"user_id"` }:
\* an object without the key leaves UserID at its zero value
JsonUnmarshal(body) ==
    IF body = <<"{", "}">> THEN [ok |-> TRUE, UserID |-> 0]
    ELSE IF /\ Len(body) = 5
            /\ body[1] = "{" /\ body[2] = UserIdKey /\ body[3] = ":"
            /\ body[4] \in Int /\ body[5] = "}"
         THEN [ok |-> TRUE, UserID |-> body[4]]
         ELSE [ok |-> FALSE, UserID |-> 0]

\* WrapError(op, err, msg) paired with the identity returned beside it
WrapError(op, cause, msg) ==
    [identity |-> 0, op |-> op, cause |-> cause, msg |-> msg]

Success(uid) == [identity |-> uid, op |-> "", cause |-> "nil", msg |-> <<>>]

NoResult == [identity |-> 0, op |-> "", cause |-> "pending", msg |-> <<>>]

AuthFailedMsg(status, body) == <<"/me returned status ", status, ": ", body>>

(* ------------------------------------------------------------------ state *)
VARIABLES
    config,         \* the caller's Config, mutated in place by NewClient
    given,          \* the Config as it was at each NewClient invocation, in order
    pcClient,       \* position of NewClient: new, invalid, validated, classified, ready
    constructions,  \* NewClient invocations on this configuration
    classifierRuns, \* executions of the JWT detection
    callers,        \* the getMeIdentity calls the caller will make
    pc,             \* per call: idle, loop, inflight, done
    attempts,       \* per call: the local attempt list
    meURL,          \* per call: the local meURL
    idx,            \* per call: position of the range loop
    lastStatus,     \* per call: local lastStatus
    lastBody,       \* per call: local lastBody
    sent,           \* per call: requests handed to httpClient.Do, in order
    outcomes,       \* per call: how each attempt ended, in order
    result,         \* per call: the (int, error) returned
    script,         \* the patch script being run: fix_client, fix_getme or none
    disk,           \* the target Go file on disk, as a sequence of lines
    diskAt,         \* the target file as it was at the start of each run, in order
    content,        \* the script's variable content
    start_idx,      \* fix_getme.py: start_idx (1-based, 0 for not found)
    end_idx,        \* fix_getme.py: end_idx (1-based, 0 for not found)
    patchPc,        \* position of the script: start, imports_done, start_found,
                    \* end_found, exited
    exitStatus,     \* exit status of the run, -1 while it is running
    runs            \* runs of the script on the file

clientVars == <<config, given, pcClient, constructions, classifierRuns>>
callVars == <<pc, attempts, meURL, idx, lastStatus, lastBody, sent, outcomes, result>>
patchVars == <<script, disk, diskAt, content, start_idx, end_idx, patchPc,
               exitStatus, runs>>
vars == <<config, given, pcClient, constructions, classifierRuns, callers,
          pc, attempts, meURL, idx, lastStatus, lastBody, sent, outcomes, result,
          script, disk, diskAt, content, start_idx, end_idx, patchPc,
          exitStatus, runs>>

\* no patch script is run
PatchIdle ==
    /\ script = "none"
    /\ disk = <<>>
    /\ diskAt = <<>>
    /\ content = <<>>
    /\ start_idx = 0
    /\ end_idx = 0
    /\ patchPc = "exited"
    /\ exitStatus = 0
    /\ runs = 0

CallsIdle ==
    /\ pc = [c \in Calls |-> "idle"]
    /\ attempts = [c \in Calls |-> <<>>]
    /\ meURL = [c \in Calls |-> <<>>]
    /\ idx = [c \in Calls |-> 0]
    /\ lastStatus = [c \in Calls |-> 0]
    /\ lastBody = [c \in Calls |-> <<>>]
    /\ sent = [c \in Calls |-> <<>>]
    /\ outcomes = [c \in Calls |-> <<>>]
    /\ result = [c \in Calls |-> NoResult]

ClientNew ==
    /\ given = <<config>>
    /\ pcClient = "new"
    /\ constructions = 1
    /\ classifierRuns = 0

\* one caller resolving its identity
Init ==
    /\ \E url \in ServerURLs, ssl \in BOOLEAN,
          api \in SeqsUpTo(ResolveApiLen), access \in SeqsUpTo(ResolveAccessLen) :
            config = [ServerURL |-> url, SSL |-> ssl,
                      APIToken |-> api, AccessToken |-> access]
    /\ ClientNew
    /\ callers = {"c1"}
    /\ CallsIdle
    /\ PatchIdle

\* construction only, over longer tokens
InitNorm ==
    /\ \E api \in SeqsUpTo(NormApiLen), access \in SeqsUpTo(NormAccessLen) :
            config = [ServerURL |-> <<"mythic.example.com">>, SSL |-> TRUE,
                      APIToken |-> api, AccessToken |-> access]
    /\ ClientNew
    /\ callers = {}
    /\ CallsIdle
    /\ PatchIdle

(* -------------------------------------------------------------- NewClient *)
\* config.Validate() returns an error: NewClient returns before the detection
NewClientInvalid ==
    /\ pcClient = "new"
    /\ pcClient' = "invalid"
    /\ UNCHANGED <<config, given, constructions, classifierRuns, callers>>
    /\ UNCHANGED <<callVars, patchVars>>

\* config.Validate() returns nil
NewClientValidated ==
    /\ pcClient = "new"
    /\ pcClient' = "validated"
    /\ UNCHANGED <<config, given, constructions, classifierRuns, callers>>
    /\ UNCHANGED <<callVars, patchVars>>

\* mutation: the detection block stands before the validation's early return
NewClientClassifyAnyway ==
    /\ pcClient \in {"validated", "invalid"}
    /\ classifierRuns < constructions
    /\ config' = NormalizeConfig(config)
    /\ classifierRuns' = classifierRuns + 1
    /\ pcClient' = IF pcClient = "validated" THEN "classified" ELSE "invalid"
    /\ UNCHANGED <<given, constructions, callers>>
    /\ UNCHANGED <<callVars, patchVars>>

\* the JWT detection block
NewClientClassify ==
    /\ pcClient = "validated"
    /\ config' = NormalizeConfig(config)
    /\ classifierRuns' = classifierRuns + 1
    /\ pcClient' = "classified"
    /\ UNCHANGED <<given, constructions, callers>>
    /\ UNCHANGED <<callVars, patchVars>>

\* cookie jar and the rest of the construction
NewClientCookieJar ==
    /\ pcClient = "classified"
    /\ pcClient' = "ready"
    /\ UNCHANGED <<config, given, constructions, classifierRuns, callers>>
    /\ UNCHANGED <<callVars, patchVars>>

\* the caller passes the same *Config to NewClient once more
NewClientAgain ==
    /\ pcClient = "ready"
    /\ constructions < MaxConstructions
    /\ constructions' = constructions + 1
    /\ given' = Append(given, config)
    /\ pcClient' = "new"
    /\ UNCHANGED <<config, classifierRuns, callers>>
    /\ UNCHANGED <<callVars, patchVars>>

NextNorm ==
    \/ NewClientInvalid
    \/ NewClientValidated
    \/ NewClientClassify
    \/ NewClientCookieJar
    \/ NewClientAgain

SpecNorm == InitNorm /\ [][NextNorm]_vars

(* ---------------------------------------------------------- getMeIdentity *)
OpName == "getMeIdentity"

CreateMsg == "failed to create /me request"
CallMsg == "failed to call /me endpoint"
ReadMsg == "failed to read /me response"
ParseMsg == "failed to parse /me response"
NoUserIdMsg == "no user_id in /me response"

\* lastStatus = resp.StatusCode; lastBody = body; then the next attempt, or
\* after the last one the ErrAuthenticationFailed built from the two locals
Rejected(status, body, hasNext) ==
    IF hasNext
    THEN [next |-> "loop", lastStatus |-> status, lastBody |-> body,
          result |-> NoResult]
    ELSE [next |-> "done", lastStatus |-> status, lastBody |-> body,
          result |-> WrapError(OpName, "ErrAuthenticationFailed",
                               AuthFailedMsg(status, body))]

\* the StatusOK branch: parse, reject a zero user_id, return the user_id
Accepted(body, prevStatus, prevBody) ==
    LET meResp == JsonUnmarshal(body) IN
    [next |-> "done", lastStatus |-> prevStatus, lastBody |-> prevBody,
     result |-> IF ~meResp.ok
                THEN WrapError(OpName, "json.SyntaxError", ParseMsg)
                ELSE IF meResp.UserID = 0
                THEN WrapError(OpName, "ErrInvalidResponse", NoUserIdMsg)
                ELSE Success(meResp.UserID)]

\* mutation: a good 200 on a non-final attempt does not return, the loop goes on
ProcessResponseNoEarlyReturn(status, body, hasNext, prevStatus, prevBody) ==
    IF status = StatusOK
    THEN IF JsonUnmarshal(body).ok /\ JsonUnmarshal(body).UserID # 0 /\ hasNext
         THEN [next |-> "loop", lastStatus |-> prevStatus, lastBody |-> prevBody,
               result |-> NoResult]
         ELSE Accepted(body, prevStatus, prevBody)
    ELSE Rejected(status, body, hasNext)

\* mutation: only a 401 leads to the next attempt, as the doc comment words it
ProcessResponseOnly401(status, body, hasNext, prevStatus, prevBody) ==
    IF status = StatusOK
    THEN Accepted(body, prevStatus, prevBody)
    ELSE Rejected(status, body, hasNext /\ status = 401)

\* mutation: a 200 without a user_id is treated as a rejected attempt
ProcessResponseRetriesNoUserId(status, body, hasNext, prevStatus, prevBody) ==
    IF status = StatusOK /\ ~(JsonUnmarshal(body).ok /\ JsonUnmarshal(body).UserID = 0)
    THEN Accepted(body, prevStatus, prevBody)
    ELSE Rejected(status, body, hasNext)

\* mutation: a 200 that does not parse is treated as a rejected attempt
ProcessResponseRetriesParseError(status, body, hasNext, prevStatus, prevBody) ==
    IF status = StatusOK /\ JsonUnmarshal(body).ok
    THEN Accepted(body, prevStatus, prevBody)
    ELSE Rejected(status, body, hasNext)

\* mutation: lastStatus and lastBody are written only while still unset
ProcessResponseKeepsFirst(status, body, hasNext, prevStatus, prevBody) ==
    IF status = StatusOK
    THEN Accepted(body, prevStatus, prevBody)
    ELSE LET ls == IF prevStatus = 0 THEN status ELSE prevStatus
             lb == IF prevStatus = 0 THEN body ELSE prevBody IN
         IF hasNext
         THEN [next |-> "loop", lastStatus |-> ls, lastBody |-> lb,
               result |-> NoResult]
         ELSE [next |-> "done", lastStatus |-> ls, lastBody |-> lb,
               result |-> WrapError(OpName, "ErrAuthenticationFailed",
                                    AuthFailedMsg(ls, lb))]

\* mutation: the zero test on the parsed user_id is missing
ProcessResponseAcceptsZero(status, body, hasNext, prevStatus, prevBody) ==
    IF status = StatusOK
    THEN [next |-> "done", lastStatus |-> prevStatus, lastBody |-> prevBody,
          result |-> IF ~JsonUnmarshal(body).ok
                     THEN WrapError(OpName, "json.SyntaxError", ParseMsg)
                     ELSE Success(JsonUnmarshal(body).UserID)]
    ELSE Rejected(status, body, hasNext)

\* the loop body after the body was read, and the statement after the loop:
\* what one response makes of the call, given the locals and whether another
\* attempt remains
ProcessResponse(status, body, hasNext, prevStatus, prevBody) ==
    IF status = StatusOK
    THEN Accepted(body, prevStatus, prevBody)
    ELSE Rejected(status, body, hasNext)

\* mutation: the call clears APIToken once it has built the fallback from it
CallConsumesToken(c) ==
    /\ pcClient = "ready"
    /\ c \in callers
    /\ pc[c] = "idle"
    /\ meURL' = [meURL EXCEPT ![c] = MeURL(config)]
    /\ attempts' = [attempts EXCEPT ![c] = BuildAttempts(config)]
    /\ lastStatus' = [lastStatus EXCEPT ![c] = 0]
    /\ lastBody' = [lastBody EXCEPT ![c] = <<>>]
    /\ idx' = [idx EXCEPT ![c] = 1]
    /\ pc' = [pc EXCEPT ![c] = "loop"]
    /\ config' = [config EXCEPT !.APIToken = <<>>]
    /\ UNCHANGED <<sent, outcomes, result, callers>>
    /\ UNCHANGED <<given, pcClient, constructions, classifierRuns, patchVars>>

\* entry of getMeIdentity: the URL, the attempt list, the two locals
Call(c) ==
    /\ pcClient = "ready"
    /\ c \in callers
    /\ pc[c] = "idle"
    /\ meURL' = [meURL EXCEPT ![c] = MeURL(config)]
    /\ attempts' = [attempts EXCEPT ![c] = BuildAttempts(config)]
    /\ lastStatus' = [lastStatus EXCEPT ![c] = 0]
    /\ lastBody' = [lastBody EXCEPT ![c] = <<>>]
    /\ idx' = [idx EXCEPT ![c] = 1]
    /\ pc' = [pc EXCEPT ![c] = "loop"]
    /\ UNCHANGED <<sent, outcomes, result, callers>>
    /\ UNCHANGED <<clientVars, patchVars>>

\* http.NewRequestWithContext returns an error
NewRequestFails(c) ==
    /\ pc[c] = "loop"
    /\ ~UrlParses(meURL[c])
    /\ outcomes' = [outcomes EXCEPT ![c] = Append(@, [kind |-> "create", status |-> 0, body |-> <<>>])]
    /\ result' = [result EXCEPT ![c] = WrapError(OpName, "url.Error", CreateMsg)]
    /\ pc' = [pc EXCEPT ![c] = "done"]
    /\ UNCHANGED <<attempts, meURL, idx, lastStatus, lastBody, sent, callers>>
    /\ UNCHANGED <<clientVars, patchVars>>

\* the request is built, the attempt's headers are set, httpClient.Do is entered
SendRequest(c) ==
    /\ pc[c] = "loop"
    /\ UrlParses(meURL[c])
    /\ sent' = [sent EXCEPT ![c] =
                  Append(@, [method |-> "GET", url |-> meURL[c],
                             headers |-> attempts[c][idx[c]]])]
    /\ pc' = [pc EXCEPT ![c] = "inflight"]
    /\ UNCHANGED <<attempts, meURL, idx, lastStatus, lastBody, outcomes, result, callers>>
    /\ UNCHANGED <<clientVars, patchVars>>

\* an attempt ends with an error that is returned at once
Abort(c, kind, cause, msg) ==
    /\ outcomes' = [outcomes EXCEPT ![c] = Append(@, [kind |-> kind, status |-> 0, body |-> <<>>])]
    /\ result' = [result EXCEPT ![c] = WrapError(OpName, cause, msg)]
    /\ pc' = [pc EXCEPT ![c] = "done"]
    /\ UNCHANGED <<attempts, meURL, idx, lastStatus, lastBody, sent, callers>>
    /\ UNCHANGED <<clientVars, patchVars>>

\* mutation helper: a failed call is treated like a rejected attempt
AbortOrNext(c, kind, cause, msg) ==
    IF idx[c] < Len(attempts[c])
    THEN /\ outcomes' = [outcomes EXCEPT ![c] =
                           Append(@, [kind |-> kind, status |-> 0, body |-> <<>>])]
         /\ idx' = [idx EXCEPT ![c] = @ + 1]
         /\ pc' = [pc EXCEPT ![c] = "loop"]
         /\ UNCHANGED <<attempts, meURL, lastStatus, lastBody, sent, result, callers>>
         /\ UNCHANGED <<clientVars, patchVars>>
    ELSE Abort(c, kind, cause, msg)

\* mutation: a network error moves on to the next header set
DoFailsThenNext(c) ==
    /\ pc[c] = "inflight"
    /\ AbortOrNext(c, "transport", "net.OpError", CallMsg)

\* mutation: a cancelled call moves on to the next header set
DoCancelledThenNext(c) ==
    /\ pc[c] = "inflight"
    /\ AbortOrNext(c, "cancel", "context.Canceled", CallMsg)

\* httpClient.Do returns a network error
DoFails(c) ==
    /\ pc[c] = "inflight"
    /\ Abort(c, "transport", "net.OpError", CallMsg)

\* the caller's context is cancelled or expires while Do is in flight
DoCancelled(c) ==
    /\ pc[c] = "inflight"
    /\ Abort(c, "cancel", "context.Canceled", CallMsg)

\* a response arrived but io.ReadAll returns an error
ReadFails(c) ==
    /\ pc[c] = "inflight"
    /\ Abort(c, "read", "io.ErrUnexpectedEOF", ReadMsg)

\* the caller's context is cancelled while the body is being read
ReadCancelled(c) ==
    /\ pc[c] = "inflight"
    /\ Abort(c, "cancel", "context.Canceled", ReadMsg)

\* mutation: lastStatus and lastBody are variables of the client, not locals
RespondSharedLocals(c, status, body) ==
    /\ pc[c] = "inflight"
    /\ LET r == ProcessResponse(status, body, idx[c] < Len(attempts[c]),
                                lastStatus[c], lastBody[c]) IN
        /\ outcomes' = [outcomes EXCEPT ![c] =
                          Append(@, [kind |-> "response", status |-> status,
                                     body |-> body])]
        /\ lastStatus' = [d \in Calls |-> r.lastStatus]
        /\ lastBody' = [d \in Calls |-> r.lastBody]
        /\ idx' = [idx EXCEPT ![c] = IF r.next = "loop" THEN @ + 1 ELSE @]
        /\ result' = [result EXCEPT ![c] = r.result]
        /\ pc' = [pc EXCEPT ![c] = r.next]
    /\ UNCHANGED <<attempts, meURL, sent, callers>>
    /\ UNCHANGED <<clientVars, patchVars>>

\* a response with a fully read body
Respond(c, status, body) ==
    /\ pc[c] = "inflight"
    /\ LET r == ProcessResponse(status, body, idx[c] < Len(attempts[c]),
                                lastStatus[c], lastBody[c]) IN
        /\ outcomes' = [outcomes EXCEPT ![c] =
                          Append(@, [kind |-> "response", status |-> status,
                                     body |-> body])]
        /\ lastStatus' = [lastStatus EXCEPT ![c] = r.lastStatus]
        /\ lastBody' = [lastBody EXCEPT ![c] = r.lastBody]
        /\ idx' = [idx EXCEPT ![c] = IF r.next = "loop" THEN @ + 1 ELSE @]
        /\ result' = [result EXCEPT ![c] = r.result]
        /\ pc' = [pc EXCEPT ![c] = r.next]
    /\ UNCHANGED <<attempts, meURL, sent, callers>>
    /\ UNCHANGED <<clientVars, patchVars>>

Next ==
    \/ NewClientInvalid
    \/ NewClientValidated
    \/ NewClientClassify
    \/ NewClientCookieJar
    \/ \E c \in Calls : Call(c)
    \/ \E c \in Calls : NewRequestFails(c)
    \/ \E c \in Calls : SendRequest(c)
    \/ \E c \in Calls : DoFails(c)
    \/ \E c \in Calls : DoCancelled(c)
    \/ \E c \in Calls : ReadFails(c)
    \/ \E c \in Calls : ReadCancelled(c)
    \/ \E c \in Calls, status \in Statuses, body \in Bodies : Respond(c, status, body)

Spec == Init /\ [][Next]_vars

\* two goroutines resolving on the same client at the same time
InitConc ==
    /\ \E url \in {<<"mythic.example.com">>, <<"%zz">>},
          api \in {<<>>, <<"y">>}, access \in {<<>>, <<"J">>} :
            config = [ServerURL |-> url, SSL |-> TRUE,
                      APIToken |-> api, AccessToken |-> access]
    /\ ClientNew
    /\ callers = Calls
    /\ CallsIdle
    /\ PatchIdle

SpecConc == InitConc /\ [][Next]_vars

\* the next step of call c: the goroutine runs on, the network call returns
Step(c) ==
    \/ NewRequestFails(c)
    \/ SendRequest(c)
    \/ DoFails(c)
    \/ DoCancelled(c)
    \/ ReadFails(c)
    \/ ReadCancelled(c)
    \/ \E status \in Statuses, body \in Bodies : Respond(c, status, body)

\* every started call keeps running and every network call returns
SpecFair == Init /\ [][Next]_vars /\ \A c \in Calls : WF_vars(Step(c))

(* ---------------------------------------------------- the patch scripts *)
\* A Go file is a sequence of lines; a run of lines the scripts never split is
\* one element.
\* longest target file, in such elements
MaxFileLen == 4
\* how many times a script is run on the same file
MaxRuns == 2

Scripts == {"fix_client", "fix_getme"}

\* client.go: the import block up to "net/http/cookiejar", the added import,
\* the rest of the import block from "sync", the Validate block, the added
\* detection, the cookie jar comment, any other line
ClientLines == {"imports_head", "strings", "imports_tail", "validate",
                "detect", "cookie_jar", "other"}

\* auth.go: the two doc comment lines, the added doc comment, the func line,
\* the line "return meResp.UserID, nil" at function level, a closing brace at
\* the start of a line, the new loop body, any other line
GetmeLines == {"doc", "doc_more", "func", "return_uid", "close", "new_body",
               "other"}

LinesOf(s) == IF s = "fix_client" THEN ClientLines ELSE GetmeLines

FilesUpTo(lines, n) == UNION {[1..k -> lines] : k \in 0..n}

old_imports == <<"imports_head", "imports_tail">>
new_imports == <<"imports_head", "strings", "imports_tail">>
old_section == <<"validate", "cookie_jar">>
new_section == <<"validate", "detect", "cookie_jar">>

start_marker == <<"doc", "func">>
end_marker == <<"return_uid", "close">>
new_func == <<"doc", "doc_more", "func", "new_body", "close">>

\* positions from `from` on at which pat occurs in text
MatchesFrom(text, pat, from) ==
    {i \in from..(Len(text) - Len(pat) + 1) : SubSeq(text, i, i + Len(pat) - 1) = pat}

\* str.find(pat, from), 1-based, 0 when pat does not occur
Find(text, pat, from) ==
    IF MatchesFrom(text, pat, from) = {} THEN 0
    ELSE CHOOSE i \in MatchesFrom(text, pat, from) :
            \A j \in MatchesFrom(text, pat, from) : i <= j

\* pat in text
Contains(text, pat) == Find(text, pat, 1) # 0

\* str.replace(old, new): every occurrence, left to right, without overlap
RECURSIVE Replace(_, _, _)
Replace(text, old, new) ==
    LET i == Find(text, old, 1) IN
    IF i = 0 THEN text
    ELSE SubSeq(text, 1, i - 1) \o new
            \o Replace(SubSeq(text, i + Len(old), Len(text)), old, new)

\* a script is run on a target file
InitPatch ==
    /\ config = [ServerURL |-> <<"mythic.example.com">>, SSL |-> TRUE,
                 APIToken |-> <<>>, AccessToken |-> <<>>]
    /\ ClientNew
    /\ callers = {}
    /\ CallsIdle
    /\ script \in Scripts
    /\ disk \in FilesUpTo(LinesOf(script), MaxFileLen)
    /\ diskAt = <<disk>>
    /\ content = <<>>
    /\ start_idx = 0
    /\ end_idx = 0
    /\ patchPc = "start"
    /\ exitStatus = -1
    /\ runs = 1

\* print("ERROR: ..."); exit(1)
Exit1 ==
    /\ patchPc' = "exited"
    /\ exitStatus' = 1
    /\ UNCHANGED <<script, disk, diskAt, runs>>
    /\ UNCHANGED <<clientVars, callVars, callers>>

\* fix_client.py: the file is read and the imports block is not in it
ClientImportsMissing ==
    /\ script = "fix_client" /\ patchPc = "start"
    /\ ~Contains(disk, old_imports)
    /\ content' = disk
    /\ Exit1
    /\ UNCHANGED <<start_idx, end_idx>>

\* mutation: the file is written after each replacement
ClientImportsReplacedAndSaved ==
    /\ script = "fix_client" /\ patchPc = "start"
    /\ Contains(disk, old_imports)
    /\ content' = Replace(disk, old_imports, new_imports)
    /\ disk' = Replace(disk, old_imports, new_imports)
    /\ patchPc' = "imports_done"
    /\ UNCHANGED <<script, diskAt, start_idx, end_idx, exitStatus, runs>>
    /\ UNCHANGED <<clientVars, callVars, callers>>

\* fix_client.py: the file is read, the imports block is found and replaced
ClientImportsReplaced ==
    /\ script = "fix_client" /\ patchPc = "start"
    /\ Contains(disk, old_imports)
    /\ content' = Replace(disk, old_imports, new_imports)
    /\ patchPc' = "imports_done"
    /\ UNCHANGED <<script, disk, diskAt, start_idx, end_idx, exitStatus, runs>>
    /\ UNCHANGED <<clientVars, callVars, callers>>

\* fix_client.py: the config.Validate section is not in content
ClientSectionMissing ==
    /\ script = "fix_client" /\ patchPc = "imports_done"
    /\ ~Contains(content, old_section)
    /\ Exit1
    /\ UNCHANGED <<content, start_idx, end_idx>>

\* fix_client.py: the section is replaced and content is written to the file
ClientSectionReplacedAndWritten ==
    /\ script = "fix_client" /\ patchPc = "imports_done"
    /\ Contains(content, old_section)
    /\ content' = Replace(content, old_section, new_section)
    /\ disk' = content'
    /\ patchPc' = "exited"
    /\ exitStatus' = 0
    /\ UNCHANGED <<script, diskAt, start_idx, end_idx, runs>>
    /\ UNCHANGED <<clientVars, callVars, callers>>

\* fix_getme.py: the file is read and the start marker is not in it
GetmeStartMissing ==
    /\ script = "fix_getme" /\ patchPc = "start"
    /\ Find(disk, start_marker, 1) = 0
    /\ content' = disk
    /\ Exit1
    /\ UNCHANGED <<start_idx, end_idx>>

\* fix_getme.py: the file is read and the start marker is found
GetmeStartFound ==
    /\ script = "fix_getme" /\ patchPc = "start"
    /\ Find(disk, start_marker, 1) # 0
    /\ content' = disk
    /\ start_idx' = Find(disk, start_marker, 1)
    /\ patchPc' = "start_found"
    /\ UNCHANGED <<script, disk, diskAt, end_idx, exitStatus, runs>>
    /\ UNCHANGED <<clientVars, callVars, callers>>

\* fix_getme.py: no end marker after the start marker
GetmeEndMissing ==
    /\ script = "fix_getme" /\ patchPc = "start_found"
    /\ Find(content, end_marker, start_idx + Len(start_marker)) = 0
    /\ Exit1
    /\ UNCHANGED <<content, start_idx, end_idx>>

\* fix_getme.py: the end marker is found; end_idx is moved behind it
GetmeEndFound ==
    /\ script = "fix_getme" /\ patchPc = "start_found"
    /\ Find(content, end_marker, start_idx + Len(start_marker)) # 0
    /\ end_idx' = Find(content, end_marker, start_idx + Len(start_marker))
                    + Len(end_marker)
    /\ patchPc' = "end_found"
    /\ UNCHANGED <<script, disk, diskAt, content, start_idx, exitStatus, runs>>
    /\ UNCHANGED <<clientVars, callVars, callers>>

\* fix_getme.py: the function is replaced and content is written to the file
GetmeFunctionReplacedAndWritten ==
    /\ script = "fix_getme" /\ patchPc = "end_found"
    /\ content' = SubSeq(content, 1, start_idx - 1) \o new_func
                    \o SubSeq(content, end_idx, Len(content))
    /\ disk' = content'
    /\ patchPc' = "exited"
    /\ exitStatus' = 0
    /\ UNCHANGED <<script, diskAt, start_idx, end_idx, runs>>
    /\ UNCHANGED <<clientVars, callVars, callers>>

\* the same script is run once more on the file as it now is
RunAgain ==
    /\ script \in Scripts /\ patchPc = "exited"
    /\ runs < MaxRuns
    /\ runs' = runs + 1
    /\ diskAt' = Append(diskAt, disk)
    /\ content' = <<>>
    /\ start_idx' = 0
    /\ end_idx' = 0
    /\ patchPc' = "start"
    /\ exitStatus' = -1
    /\ UNCHANGED <<script, disk>>
    /\ UNCHANGED <<clientVars, callVars, callers>>

NextPatch ==
    \/ ClientImportsMissing
    \/ ClientImportsReplaced
    \/ ClientSectionMissing
    \/ ClientSectionReplacedAndWritten
    \/ GetmeStartMissing
    \/ GetmeStartFound
    \/ GetmeEndMissing
    \/ GetmeEndFound
    \/ GetmeFunctionReplacedAndWritten
    \/ RunAgain

SpecPatch == InitPatch /\ [][NextPatch]_vars

(* ------------------------------------------------------------- properties *)
Classified == pcClient \in {"classified", "ready"}

\* the configuration handed to the NewClient invocation that is under way
Handed == given[constructions]

StartsWithEyJ(tok) ==
    /\ Len(tok) >= 3
    /\ tok[1] = "e" /\ tok[2] = "y" /\ tok[3] = "J"

\* C1: once the detection has run, AccessToken holds the handed-in APIToken and
\* APIToken is empty exactly when the handed-in APIToken was non-empty and
\* began with "eyJ"; otherwise both fields are as they were handed in.
C1_MoveIffJwtShaped ==
    Classified =>
        IF Handed.APIToken # <<>> /\ StartsWithEyJ(Handed.APIToken)
        THEN /\ config.AccessToken = Handed.APIToken
             /\ config.APIToken = <<>>
             /\ config.ServerURL = Handed.ServerURL
             /\ config.SSL = Handed.SSL
        ELSE config = Handed

C1_Witness ==
    /\ pcClient = "classified"
    /\ constructions = 1
    /\ Handed.APIToken = <<"e", "y", "J", "y">>
    /\ Handed.AccessToken = <<"J">>
    /\ config.AccessToken = <<"e", "y", "J", "y">>
    /\ config.APIToken = <<>>

\* C2: running the detection a second time, on the configuration the first run
\* produced, leaves that configuration exactly as it was.
C2_SecondRunIsNoOp ==
    (constructions = 2 /\ Classified) => config = given[2]

C2_Witness ==
    /\ constructions = 2
    /\ classifierRuns = 2
    /\ pcClient = "classified"
    /\ given[1].APIToken = <<"e", "y", "J", "e">>
    /\ given[1].AccessToken = <<"e", "y", "J">>
    /\ given[2] # given[1]
    /\ config = given[2]

\* the i-th attempt of call c ended with a fully read response
IsResponse(c, i) ==
    /\ i \in 1..Len(outcomes[c])
    /\ outcomes[c][i].kind = "response"

Finished(c) == pc[c] = "done"

FallbackHeaders == {<<"Authorization", BearerPrefix \o config.APIToken>>}

\* C3: when the primary attempt is answered 200 with a nonzero user_id, the
\* call has returned that user_id without error and exactly one request was
\* ever handed to the transport, fallback available or not.
C3_PrimarySuccessReturnsAtOnce ==
    \A c \in Calls : \A n \in UserIds \ {0} :
        (IsResponse(c, 1) /\ outcomes[c][1].status = 200
                          /\ outcomes[c][1].body = UidBody(n))
        => /\ Finished(c)
           /\ result[c].identity = n
           /\ result[c].cause = "nil"
           /\ Len(sent[c]) = 1
           /\ Len(outcomes[c]) = 1

C3_Witness ==
    /\ Len(attempts["c1"]) = 2
    /\ IsResponse("c1", 1)
    /\ outcomes["c1"][1].status = 200
    /\ outcomes["c1"][1].body = UidBody(42)
    /\ Finished("c1")
    /\ result["c1"].identity = 42

C5_MalformedSuccessIsFatal ==
    \A c \in Calls : \A i \in 1..Len(outcomes[c]) :
        (IsResponse(c, i) /\ outcomes[c][i].status = 200)
        => /\ outcomes[c][i].body = GarbageBody =>
                /\ Finished(c) /\ i = Len(outcomes[c]) /\ Len(sent[c]) = i
                /\ result[c].identity = 0
                /\ result[c].cause = "json.SyntaxError"
                /\ result[c].msg = "failed to parse /me response"
           /\ outcomes[c][i].body \in {EmptyObjectBody, UidBody(0)} =>
                /\ Finished(c) /\ i = Len(outcomes[c]) /\ Len(sent[c]) = i
                /\ result[c].identity = 0
                /\ result[c].cause = "ErrInvalidResponse"

C5_Witness ==
    /\ Len(attempts["c1"]) = 2
    /\ IsResponse("c1", 1)
    /\ outcomes["c1"][1].status = 200
    /\ outcomes["c1"][1].body = UidBody(0)
    /\ Finished("c1")
    /\ result["c1"].cause = "ErrInvalidResponse"
    /\ Len(sent["c1"]) = 1

\* C6: a finished call all of whose attempts were answered with a status other
\* than 200 made every attempt of its list and failed with
\* ErrAuthenticationFailed, the message being built from the status and body
\* of the last response alone.
C6_AuthFailureCarriesLastAttempt ==
    \A c \in Calls :
        (/\ Finished(c)
         /\ outcomes[c] # <<>>
         /\ \A i \in 1..Len(outcomes[c]) :
                IsResponse(c, i) /\ outcomes[c][i].status # 200)
        => LET last == outcomes[c][Len(outcomes[c])] IN
           /\ Len(outcomes[c]) = Len(attempts[c])
           /\ result[c].identity = 0
           /\ result[c].cause = "ErrAuthenticationFailed"
           /\ result[c].msg = <<"/me returned status ", last.status, ": ", last.body>>

C6_Witness ==
    /\ Finished("c1")
    /\ Len(outcomes["c1"]) = 2
    /\ IsResponse("c1", 1) /\ outcomes["c1"][1].status = 401
    /\ outcomes["c1"][1].body = GarbageBody
    /\ IsResponse("c1", 2) /\ outcomes["c1"][2].status = 403
    /\ outcomes["c1"][2].body = EmptyObjectBody
    /\ result["c1"].msg = <<"/me returned status ", 403, ": ", EmptyObjectBody>>

\* C7: a second request exists only after the primary attempt was answered
\* with a status other than 200 and with APIToken non-empty; a primary
\* answered with a status other than 200 when APIToken is empty has failed
\* with ErrAuthenticationFailed after its single request.
C7_FallbackOnlyAfterRejectedPrimary ==
    \A c \in Calls :
        /\ Len(sent[c]) >= 2 =>
              /\ IsResponse(c, 1)
              /\ outcomes[c][1].status # 200
              /\ config.APIToken # <<>>
              /\ Len(attempts[c]) = 2
        /\ (IsResponse(c, 1) /\ outcomes[c][1].status # 200 /\ config.APIToken = <<>>) =>
              /\ Finished(c)
              /\ result[c].cause = "ErrAuthenticationFailed"
              /\ Len(sent[c]) = 1
              /\ Len(outcomes[c]) = 1

C7_Witness ==
    /\ Len(sent["c1"]) = 2
    /\ pc["c1"] = "inflight"
    /\ IsResponse("c1", 1)
    /\ outcomes["c1"][1].status = 403
    /\ config.APIToken = <<"e", "y", "e">>

\* C8: an attempt that ends with a request-construction, transport or
\* body-read error is the last attempt of the call: the call has returned an
\* error other than ErrAuthenticationFailed and no request follows the failed
\* one.
C8_TransportErrorsAreFatal ==
    \A c \in Calls : \A i \in 1..Len(outcomes[c]) :
        outcomes[c][i].kind \in {"create", "transport", "read"}
        => /\ Finished(c)
           /\ i = Len(outcomes[c])
           /\ Len(sent[c]) = (IF outcomes[c][i].kind = "create" THEN i - 1 ELSE i)
           /\ result[c].identity = 0
           /\ result[c].cause \notin {"nil", "pending", "ErrAuthenticationFailed"}

C8_Witness ==
    /\ Len(attempts["c1"]) = 2
    /\ Len(outcomes["c1"]) = 1
    /\ outcomes["c1"][1].kind = "transport"
    /\ Finished("c1")
    /\ result["c1"].msg = "failed to call /me endpoint"

\* C9: an attempt cut short by the caller's cancellation is the last attempt of
\* the call: the call has returned an error whose cause is the context's
\* cancellation and no request follows the cancelled one.
C9_CancellationIsFatal ==
    \A c \in Calls : \A i \in 1..Len(outcomes[c]) :
        outcomes[c][i].kind = "cancel"
        => /\ Finished(c)
           /\ i = Len(outcomes[c])
           /\ Len(sent[c]) = i
           /\ result[c].identity = 0
           /\ result[c].cause = "context.Canceled"

C9_Witness ==
    /\ Len(attempts["c1"]) = 2
    /\ Len(outcomes["c1"]) = 1
    /\ outcomes["c1"][1].kind = "cancel"
    /\ Finished("c1")
    /\ Len(sent["c1"]) = 1
    /\ result["c1"].msg = "failed to call /me endpoint"

\* C10: a call made with APIToken non-empty and not starting with "eyJ" and
\* AccessToken empty has the attempt list
\* << {apitoken: APIToken}, {Authorization: "Bearer " + APIToken} >>.
C10_OpaqueTokenAttemptList ==
    \A c \in Calls :
        (/\ pc[c] # "idle"
         /\ config.APIToken # <<>>
         /\ ~StartsWithEyJ(config.APIToken)
         /\ config.AccessToken = <<>>)
        => attempts[c] =
             << {<<"apitoken", config.APIToken>>},
                {<<"Authorization",
                   <<"B", "e", "a", "r", "e", "r", " ">> \o config.APIToken>>} >>

C10_Witness ==
    /\ pc["c1"] = "inflight"
    /\ Len(sent["c1"]) = 2
    /\ config.AccessToken = <<>>
    /\ config.APIToken = <<"J", "y", "e">>
    /\ sent["c1"][1].headers = {<<"apitoken", <<"J", "y", "e">>>>}
    /\ sent["c1"][2].headers =
         {<<"Authorization", <<"B", "e", "a", "r", "e", "r", " ", "J", "y", "e">>>>}

BearerOf(tok) == <<"B", "e", "a", "r", "e", "r", " ">> \o tok

\* C11: a call made with AccessToken non-empty and APIToken empty has the
\* one-element attempt list << {Authorization: "Bearer " + AccessToken} >>.
C11_BearerOnlyAttemptList ==
    \A c \in Calls :
        (/\ pc[c] # "idle"
         /\ config.AccessToken # <<>>
         /\ config.APIToken = <<>>)
        => /\ attempts[c] = << {<<"Authorization", BearerOf(config.AccessToken)>>} >>
           /\ Len(sent[c]) <= 1

C11_Witness ==
    /\ given[1].APIToken = <<>>
    /\ config.AccessToken = <<"y">>
    /\ config.APIToken = <<>>
    /\ Finished("c1")
    /\ IsResponse("c1", 1) /\ outcomes["c1"][1].status = 403
    /\ Len(sent["c1"]) = 1
    /\ sent["c1"][1].headers = {<<"Authorization", BearerOf(<<"y">>)>>}
    /\ result["c1"].cause = "ErrAuthenticationFailed"

\* the APIToken the caller handed to the first NewClient
HandedToken == given[1].APIToken

JwtHanded == HandedToken # <<>> /\ StartsWithEyJ(HandedToken)

\* C12 as stated: with a JWT-shaped APIToken at construction, a finished
\* resolution has issued exactly one request, with Authorization: Bearer
\* <token>, from a one-element attempt list.
C12_ExactlyOneRequest ==
    \A c \in Calls :
        (JwtHanded /\ Finished(c))
        => /\ Len(attempts[c]) = 1
           /\ Len(sent[c]) = 1
           /\ \A i \in 1..Len(sent[c]) :
                sent[c][i].headers = {<<"Authorization", BearerOf(HandedToken)>>}

\* C12 (amended): with a JWT-shaped APIToken at construction, every call has a
\* one-element attempt list, issues at most one request, every request it
\* issues carries exactly Authorization: Bearer <token> (so never an apitoken
\* header), and a finished call has issued exactly one unless the request
\* could not be constructed.
C12_AtMostOneBearerRequest ==
    \A c \in Calls :
        (JwtHanded /\ pc[c] # "idle")
        => /\ Len(attempts[c]) = 1
           /\ Len(sent[c]) <= 1
           /\ \A i \in 1..Len(sent[c]) :
                sent[c][i].headers = {<<"Authorization", BearerOf(HandedToken)>>}
           /\ (Finished(c) /\ outcomes[c][1].kind # "create") => Len(sent[c]) = 1
           /\ (Finished(c) /\ outcomes[c][1].kind = "create") => Len(sent[c]) = 0

C12_Witness ==
    /\ HandedToken = <<"e", "y", "J">>
    /\ given[1].AccessToken = <<"y">>
    /\ Finished("c1")
    /\ Len(sent["c1"]) = 1
    /\ sent["c1"][1].headers = {<<"Authorization", BearerOf(<<"e", "y", "J">>)>>}
    /\ IsResponse("c1", 1) /\ outcomes["c1"][1].status = 401

\* C13: within a construction the detection has not run, and the configuration
\* is as handed in, until validation has succeeded; it has run exactly once
\* from then on, the cookie jar being created only afterwards; a construction
\* whose validation failed never runs it, leaves the configuration as handed
\* in and is followed by no request.
C13_ClassifierOnceAfterValidation ==
    /\ pcClient \in {"new", "validated", "invalid"} =>
          /\ classifierRuns = constructions - 1
          /\ config = Handed
    /\ pcClient \in {"classified", "ready"} => classifierRuns = constructions
    /\ \A c \in Calls :
          (pc[c] # "idle" \/ sent[c] # <<>>) => pcClient = "ready"

C13_Witness ==
    /\ pcClient = "ready"
    /\ classifierRuns = 1
    /\ JwtHanded
    /\ config.AccessToken = HandedToken
    /\ config.APIToken = <<>>
    /\ pc["c1"] = "inflight"

\* C14: a finished call returned either no error and a nonzero identity, which
\* is the user_id in the body of its last response, the only one with status
\* 200, or an error and the identity 0.
C14_IdentityNonzeroIffSuccess ==
    \A c \in Calls :
        Finished(c) =>
            LET n == Len(outcomes[c])
                last == outcomes[c][n] IN
            /\ n >= 1
            /\ result[c].cause # "pending"
            /\ result[c].cause = "nil" =>
                  /\ result[c].identity # 0
                  /\ last.kind = "response" /\ last.status = 200
                  /\ last.body = UidBody(result[c].identity)
                  /\ \A i \in 1..(n - 1) : outcomes[c][i].status # 200
            /\ result[c].cause # "nil" => result[c].identity = 0

C14_Witness ==
    /\ Finished("c1")
    /\ Len(outcomes["c1"]) = 2
    /\ outcomes["c1"][1].status = 401
    /\ outcomes["c1"][2].status = 200
    /\ outcomes["c1"][2].body = UidBody(7)
    /\ result["c1"] = [identity |-> 7, op |-> "", cause |-> "nil", msg |-> <<>>]

\* the non-200 responses among the first n outcomes of call c
RejectedUpTo(c, n) ==
    {i \in 1..n : outcomes[c][i].kind = "response" /\ outcomes[c][i].status # 200}

LastRejected(c) ==
    CHOOSE i \in RejectedUpTo(c, Len(outcomes[c])) :
        \A j \in RejectedUpTo(c, Len(outcomes[c])) : j <= i

\* C15: with two calls interleaved in any way, each call's attempt list is the
\* one derived from the configuration, its requests are the entries of that
\* list in order, its lastStatus and lastBody are those of its own last
\* non-200 response (unset when it had none), and once it has finished its
\* result is the one its own last outcome determines.
C15_CallsDoNotInterfere ==
    \A c \in Calls :
        pc[c] # "idle" =>
            LET n == Len(outcomes[c]) IN
            /\ attempts[c] = BuildAttempts(config)
            /\ \A i \in 1..Len(sent[c]) : sent[c][i].headers = attempts[c][i]
            /\ IF RejectedUpTo(c, n) = {}
               THEN lastStatus[c] = 0 /\ lastBody[c] = <<>>
               ELSE /\ lastStatus[c] = outcomes[c][LastRejected(c)].status
                    /\ lastBody[c] = outcomes[c][LastRejected(c)].body
            /\ Finished(c) =>
                  LET last == outcomes[c][n] IN
                  IF last.kind # "response"
                  THEN result[c].identity = 0
                       /\ result[c].cause \notin {"nil", "pending", "ErrAuthenticationFailed"}
                  ELSE IF last.status # 200
                  THEN result[c] =
                          [identity |-> 0, op |-> "getMeIdentity",
                           cause |-> "ErrAuthenticationFailed",
                           msg |-> <<"/me returned status ", last.status, ": ", last.body>>]
                  ELSE IF last.body = GarbageBody
                  THEN result[c].cause = "json.SyntaxError"
                  ELSE IF last.body \in {EmptyObjectBody, UidBody(0)}
                  THEN result[c].cause = "ErrInvalidResponse"
                  ELSE result[c].cause = "nil" /\ last.body = UidBody(result[c].identity)

C15_Witness ==
    /\ config.APIToken = <<"y">>
    /\ config.AccessToken = <<>>
    /\ pc["c1"] = "inflight"
    /\ Len(sent["c1"]) = 2
    /\ lastStatus["c1"] = 403
    /\ lastBody["c1"] = GarbageBody
    /\ Finished("c2")
    /\ Len(outcomes["c2"]) = 2
    /\ outcomes["c2"][1].status = 401
    /\ outcomes["c2"][1].body = EmptyObjectBody
    /\ result["c2"].identity = 42

\* C16: every request of a call, primary and fallback alike, is a GET to
\* scheme://host/me with scheme "https" when SSL is set and "http" otherwise,
\* host being ServerURL without its scheme prefix.
C16_EveryAttemptGetsMeURL ==
    \A c \in Calls : \A i \in 1..Len(sent[c]) :
        /\ sent[c][i].method = "GET"
        /\ config.ServerURL \in {<<"mythic.example.com">>,
                                 <<"https://", "mythic.example.com">>}
        /\ sent[c][i].url =
             <<(IF config.SSL THEN "https" ELSE "http"), "://",
               "mythic.example.com", "/me">>

C16_Witness ==
    /\ config.ServerURL = <<"mythic.example.com">>
    /\ config.SSL
    /\ Len(sent["c1"]) = 2
    /\ sent["c1"][1].url = <<"https", "://", "mythic.example.com", "/me">>
    /\ sent["c1"][2].url = <<"https", "://", "mythic.example.com", "/me">>
    /\ sent["c1"][1].headers # sent["c1"][2].headers

Started(c) == pc[c] \in {"loop", "inflight"}

\* C17 as stated, its safety part: a finished call has sent one or two
\* requests and, when two, not the same header set twice.
C17_OneOrTwoDistinctRequests ==
    \A c \in Calls :
        Finished(c) =>
            /\ Len(sent[c]) \in {1, 2}
            /\ Len(sent[c]) = 2 => sent[c][1].headers # sent[c][2].headers

\* C17 (amended): a call sends at most two requests, the entries of its
\* attempt list in order, none when the request cannot be constructed and at
\* least one otherwise; provided the call keeps running and each network call
\* returns it finishes, and a finished call sends nothing more and keeps its
\* result.
C17_AtMostTwoAndTerminates ==
    /\ [](\A c \in Calls :
            /\ Len(attempts[c]) <= 2
            /\ Len(sent[c]) <= Len(attempts[c])
            /\ \A i \in 1..Len(sent[c]) : sent[c][i].headers = attempts[c][i]
            /\ Finished(c) =>
                 IF outcomes[c][1].kind = "create"
                 THEN Len(sent[c]) = 0
                 ELSE Len(sent[c]) >= 1)
    /\ \A c \in Calls : Started(c) ~> Finished(c)
    /\ [][\A c \in Calls :
            Finished(c) => /\ Finished(c)'
                           /\ sent'[c] = sent[c]
                           /\ result'[c] = result[c]]_vars

\* both fields set to the same opaque token: the two requests are identical
C17_Witness ==
    /\ config.APIToken = <<"y">>
    /\ config.AccessToken = <<"y">>
    /\ Finished("c1")
    /\ Len(sent["c1"]) = 2
    /\ sent["c1"][1] = sent["c1"][2]
    /\ result["c1"].cause = "ErrAuthenticationFailed"

\* C18: no step of a getMeIdentity call changes the configuration, whatever
\* the call's outcome, and any two calls made on the client have derived the
\* same URL and the same attempt list.
C18_ResolutionLeavesConfig ==
    /\ [][callVars' # callVars => config' = config]_vars
    /\ [](\A c, d \in Calls :
            (pc[c] # "idle" /\ pc[d] # "idle")
            => attempts[c] = attempts[d] /\ meURL[c] = meURL[d])

C18_Witness ==
    /\ config.APIToken = <<"y">>
    /\ config.AccessToken = <<"J">>
    /\ config = given[1]
    /\ Finished("c1")
    /\ result["c1"].cause = "ErrAuthenticationFailed"
    /\ pc["c2"] = "loop"
    /\ sent["c2"] = <<>>
    /\ attempts["c2"] = attempts["c1"]

\* C19: a call made with AccessToken and APIToken both non-empty has the
\* attempt list << {Authorization: "Bearer " + AccessToken},
\* {Authorization: "Bearer " + APIToken} >>; every request it sends carries a
\* single header, named Authorization.
C19_DualSetAttemptList ==
    \A c \in Calls :
        (/\ pc[c] # "idle"
         /\ config.AccessToken # <<>>
         /\ config.APIToken # <<>>)
        => /\ ~StartsWithEyJ(config.APIToken)
           /\ attempts[c] = << {<<"Authorization", BearerOf(config.AccessToken)>>},
                               {<<"Authorization", BearerOf(config.APIToken)>>} >>
           /\ \A i \in 1..Len(sent[c]) :
                /\ Cardinality(sent[c][i].headers) = 1
                /\ \A h \in sent[c][i].headers : h[1] = "Authorization"

C19_Witness ==
    /\ config.AccessToken = <<"J">>
    /\ config.APIToken = <<"e", "y">>
    /\ pc["c1"] = "inflight"
    /\ Len(sent["c1"]) = 2
    /\ sent["c1"][1].headers = {<<"Authorization", BearerOf(<<"J">>)>>}
    /\ sent["c1"][2].headers = {<<"Authorization", BearerOf(<<"e", "y">>)>>}

\* pat stands in text at position i
OccursAt(text, pat, i) ==
    /\ i >= 1
    /\ i + Len(pat) - 1 <= Len(text)
    /\ \A k \in 1..Len(pat) : text[i + k - 1] = pat[k]

Occurs(text, pat) == \E i \in 1..Len(text) : OccursAt(text, pat, i)

FirstAt(text, pat, i) ==
    /\ OccursAt(text, pat, i)
    /\ \A j \in 1..(i - 1) : ~OccursAt(text, pat, j)

\* every anchor the running script searches for is in the file f
AnchorsFound(f) ==
    IF script = "fix_client"
    THEN /\ Occurs(f, <<"imports_head", "imports_tail">>)
         /\ Occurs(f, <<"validate", "cookie_jar">>)
    ELSE \E i \in 1..Len(f) :
            /\ FirstAt(f, <<"doc", "func">>, i)
            /\ \E j \in (i + 2)..Len(f) : OccursAt(f, <<"return_uid", "close">>, j)

\* g is the file f with the script's whole patch applied
Patched(f, g) ==
    IF script = "fix_client"
    THEN /\ ~Occurs(g, <<"imports_head", "imports_tail">>)
         /\ ~Occurs(g, <<"validate", "cookie_jar">>)
         /\ Occurs(g, <<"imports_head", "strings", "imports_tail">>)
         /\ Occurs(g, <<"validate", "detect", "cookie_jar">>)
    ELSE \E i \in 1..Len(f) : \E j \in (i + 2)..Len(f) :
            /\ FirstAt(f, <<"doc", "func">>, i)
            /\ OccursAt(f, <<"return_uid", "close">>, j)
            /\ \A k \in (i + 2)..(j - 1) : ~OccursAt(f, <<"return_uid", "close">>, k)
            /\ g = SubSeq(f, 1, i - 1)
                     \o <<"doc", "doc_more", "func", "new_body", "close">>
                     \o SubSeq(f, j + 2, Len(f))

\* the file holds at most one old getMeIdentity header
OneOldFunction(f) ==
    \A i, j \in 1..Len(f) :
        (OccursAt(f, <<"doc", "func">>, i) /\ OccursAt(f, <<"doc", "func">>, j)) => i = j

\* C20: while a script runs the target file is as it was when the run began;
\* a run on a file in which some anchor is missing exits with status 1 and
\* leaves the file as it was, a run on a file with every anchor exits with
\* status 0 and leaves the wholly patched file; and a run that follows a run
\* which patched the file exits with status 1 and leaves the file as it was.
C20_WriteOnlyWhenAllAnchorsFound ==
    script \in Scripts =>
        LET orig == diskAt[runs] IN
        /\ patchPc # "exited" => disk = orig /\ exitStatus = -1
        /\ patchPc = "exited" =>
              IF AnchorsFound(orig)
              THEN exitStatus = 0 /\ Patched(orig, disk)
              ELSE exitStatus = 1 /\ disk = orig
        /\ (/\ patchPc = "exited"
            /\ \E k \in 1..(runs - 1) : diskAt[k + 1] # diskAt[k]
            /\ script = "fix_getme" => OneOldFunction(diskAt[1]))
           => exitStatus = 1 /\ disk = orig

\* fix_client.py finds the imports block but not the config.Validate section
C20_Witness ==
    /\ script = "fix_client"
    /\ runs = 1
    /\ diskAt[1] = <<"imports_head", "imports_tail", "validate", "other">>
    /\ content = <<"imports_head", "strings", "imports_tail", "validate", "other">>
    /\ patchPc = "exited"
    /\ exitStatus = 1
    /\ disk = diskAt[1]

====
